---------------------------- MODULE Spec2Model ----------------------------
(***************************************************************************)
(* Model of comfy_asset_generator.py: the command-line entry point main    *)
(* and ComfyUIAssetGenerator.generate_asset with the protocol client       *)
(* operations it calls (health check, model list, submit, history poll,    *)
(* image download) and the local file write.                               *)
(*                                                                         *)
(* The remote server, the template file, the clock and the file system are *)
(* the environment: every call draws the environment's answer from a small *)
(* set, and the client operation is an operator of that answer.            *)
(***************************************************************************)
EXTENDS Integers, Sequences, FiniteSets, TLC

VARIABLES
    pc,           \* position in main / generate_asset
    size,         \* args.size as a sequence of characters
    asset_name,   \* args.name (None when not given)
    model,        \* args.model (None when not given)
    seed,         \* args.seed
    width,        \* parsed width
    height,       \* parsed height
    healthResp,   \* the server's answer to GET /system_stats
    template,     \* what load_workflow_template found on disk
    objectInfo,   \* the server's answer to GET /object_info
    time_ms,      \* int(time.time() * 1000) read when the seed is derived
    workflow,     \* the job graph built by create_workflow
    rebuilt,      \* the graph and model list of a second create_fallback_workflow call
    submitResp,   \* the server's answer to POST /prompt
    prompt_id,    \* the job identifier returned by queue_prompt
    clock,        \* time.time(), in seconds since the poll loop started
    start_time,   \* local start_time of generate_asset
    elapsed,      \* local elapsed of generate_asset
    history,      \* local history of generate_asset: what get_history returned last
    cursor,       \* index of the next image entry of the record to process
    image_data,   \* local image_data of generate_asset
    lastDownload, \* the server's answer to the last GET /view
    requested,    \* the image references requested with download_image, in order
    files,        \* the files written under output_dir
    result,       \* the value generate_asset returned
    outcome,      \* the message generate_asset printed when it returned
    exit_code,    \* the exit code of the process
    healthCalls,  \* number of is_server_running calls
    modelCalls,   \* number of get_models calls
    submitCalls,  \* number of queue_prompt calls
    histCalls     \* number of get_history calls, counted up to HistCap

vars == << pc, size, asset_name, model, seed, width, height, healthResp,
           template, objectInfo, time_ms, workflow, rebuilt, submitResp, prompt_id,
           clock, start_time, elapsed, history, cursor, image_data,
           lastDownload, requested, files, result, outcome, exit_code,
           healthCalls, modelCalls, submitCalls, histCalls >>

-----------------------------------------------------------------------------
(* Bounds of the model *)

\* a history record holds at most MaxNodes output nodes
MaxNodes == 2
\* a history record holds at most MaxImages image entries in all
MaxImages == 2
\* a remote call or a sleep takes at most MaxLag seconds longer than nominal
MaxLag == 1
\* get_history calls are counted up to HistCap
HistCap == 2
\* the --size strings tried one by one have at most MaxSizeLen characters
MaxSizeLen == 4

(* Program constants *)

\* "if elapsed > 120"
PollTimeout == 120
\* "time.sleep(1)"
PollInterval == 1
\* "% 2147483647"
SeedModulus == 2147483647
\* "sys.exit(1)"
ExitFailure == 1
\* falling off the end of main, or "return" from it
ExitSuccess == 0

\* Python's None, for the string-valued variables
None == "None"

\* Python truthiness of an optional string or bytes value
Truthy(x) == x # None /\ x # ""

-----------------------------------------------------------------------------
(* main: parsing --size *)

DigitChars == {"0", "1", "2", "3", "4", "5", "6", "7", "8", "9"}

DigitValue(c) ==
    CASE c = "0" -> 0 [] c = "1" -> 1 [] c = "2" -> 2 [] c = "3" -> 3
      [] c = "4" -> 4 [] c = "5" -> 5 [] c = "6" -> 6 [] c = "7" -> 7
      [] c = "8" -> 8 [] c = "9" -> 9

\* str.split('x'): the pieces between the occurrences of the separator
RECURSIVE SplitOn(_, _)
SplitOn(s, sep) ==
    IF \A i \in 1..Len(s) : s[i] # sep
    THEN << s >>
    ELSE LET k == CHOOSE i \in 1..Len(s) :
                      s[i] = sep /\ \A j \in 1..(i - 1) : s[j] # sep
         IN  << SubSeq(s, 1, k - 1) >> \o SplitOn(SubSeq(s, k + 1, Len(s)), sep)

\* str.strip() of the blanks int() ignores around the literal
RECURSIVE StripBlanks(_)
StripBlanks(s) ==
    IF s # << >> /\ s[1] = " " THEN StripBlanks(Tail(s))
    ELSE IF s # << >> /\ s[Len(s)] = " " THEN StripBlanks(SubSeq(s, 1, Len(s) - 1))
    ELSE s

\* the digits of an int() literal after its sign: digits, single underscores between them
IsDigits(s) ==
    /\ s # << >>
    /\ s[1] \in DigitChars
    /\ s[Len(s)] \in DigitChars
    /\ \A i \in 1..Len(s) : s[i] \in DigitChars \/ s[i] = "_"
    /\ \A i \in 1..(Len(s) - 1) : ~(s[i] = "_" /\ s[i + 1] = "_")

Unsigned(s) == IF s # << >> /\ s[1] \in {"+", "-"} THEN Tail(s) ELSE s

\* whether int(s) succeeds
IsIntLiteral(s) == IsDigits(Unsigned(StripBlanks(s)))

RECURSIVE DigitsValue(_, _)
DigitsValue(s, acc) ==
    IF s = << >> THEN acc
    ELSE IF s[1] = "_" THEN DigitsValue(Tail(s), acc)
    ELSE DigitsValue(Tail(s), 10 * acc + DigitValue(s[1]))

\* int(s), for a literal int() accepts
IntValue(s) ==
    LET t == StripBlanks(s)
    IN  IF t[1] = "-" THEN 0 - DigitsValue(Tail(t), 0)
        ELSE DigitsValue(Unsigned(t), 0)

\* an unpacking that takes the first two parts and drops the others
SizeIsValid_first_two(s) ==
    LET parts == SplitOn(s, "x")
    IN  Len(parts) >= 2 /\ IsIntLiteral(parts[1]) /\ IsIntLiteral(parts[2])

\* "width, height = map(int, args.size.split('x'))" raises nothing
SizeIsValid(s) ==
    LET parts == SplitOn(s, "x")
    IN  Len(parts) = 2 /\ IsIntLiteral(parts[1]) /\ IsIntLiteral(parts[2])

\* the pair it assigns
ParseSize(s) ==
    LET parts == SplitOn(s, "x")
    IN  << IntValue(parts[1]), IntValue(parts[2]) >>

-----------------------------------------------------------------------------
(* Protocol client: each operation as a function of the server's answer *)

TransportFailures == {"network_error", "http_error", "timeout"}

\* The exception the body of an operation's try raises on an answer: urlopen
\* raises URLError, HTTPError or TimeoutError, json.loads raises
\* JSONDecodeError, and .get or [0] on a body of the wrong shape raises
\* AttributeError; None when the body raises nothing.
RaisedOn(kind) ==
    CASE kind = "network_error" -> "URLError"
      [] kind = "http_error"    -> "HTTPError"
      [] kind = "timeout"       -> "TimeoutError"
      [] kind = "bad_json"      -> "JSONDecodeError"
      [] kind = "bad_shape"     -> "AttributeError"
      [] OTHER                  -> None

\* a handler for the errors of urllib only, "except urllib.error.URLError"
ExceptException_urlerror(exc) == exc \in {"URLError", "HTTPError"}

\* "except Exception": each of these exceptions is a subclass of Exception
ExceptException(exc) ==
    exc \in {"URLError", "HTTPError", "TimeoutError", "JSONDecodeError",
             "AttributeError"}

\* the exception leaves the operation: it was raised and the handler does
\* not catch it
Escapes(exc) == exc # None /\ ~ExceptException(exc)

HealthResponses == TransportFailures \cup {"ok"}

\* a health check that takes an HTTP error status for a running server
is_server_running_http(resp) == resp \in {"ok", "http_error"}

\* is_server_running: True when urlopen returns, False when it raises
is_server_running(resp) == resp = "ok"

\* the order of Python's string comparison on the checkpoint names of the model
ModelOrder == << "anime.ckpt", "flux.ckpt", "sdxl.ckpt" >>

Rank(name) == CHOOSE i \in 1..Len(ModelOrder) : ModelOrder[i] = name

RECURSIVE InsertSorted(_, _)
InsertSorted(name, s) ==
    IF s = << >> THEN << name >>
    ELSE IF Rank(name) <= Rank(s[1]) THEN << name >> \o s
    ELSE << s[1] >> \o InsertSorted(name, Tail(s))

\* sorted(checkpoints)
RECURSIVE sorted(_)
sorted(s) == IF s = << >> THEN << >> ELSE InsertSorted(s[1], sorted(Tail(s)))

\* GET /object_info answers: a failure, an unparsable body, a body that is not
\* the nested mapping, or the ckpt_name list
ObjectInfoResponses ==
    [kind : {"network_error", "bad_json", "bad_shape"}, checkpoints : {<< >>}]
    \cup [kind : {"ok"},
          checkpoints : {<< >>, << "sdxl.ckpt", "anime.ckpt" >>,
                         << "flux.ckpt", "sdxl.ckpt", "anime.ckpt" >>}]

\* stands for "no get_models call was made"
NoObjectInfo == [kind |-> None, checkpoints |-> << >>]

\* a model list that is returned in the server's order
get_models_unsorted(resp) ==
    IF resp.kind = "ok" THEN resp.checkpoints ELSE << >>

\* get_models: sorted(checkpoints), [] on any exception
get_models(resp) ==
    IF resp.kind = "ok" THEN sorted(resp.checkpoints) ELSE << >>

-----------------------------------------------------------------------------
(* Workflow builder *)

\* "--steps" default
DefaultSteps == 20
\* "--cfg" default
DefaultCfg == 7

\* the node ids create_workflow and generate_asset address in the template
TemplateNodeIds == {"47", "42", "45", "49", "46", "4", "66"}

\* What open()/json.load find at the template path: no file, a file that is
\* not JSON, a file that cannot be read, or a JSON object with some node ids
\* (all of them, all but one, or none).
TemplateFiles ==
    [kind : {"missing", "bad_json", "unreadable"}, nodes : {{}}]
    \cup [kind : {"doc"},
          nodes : {TemplateNodeIds, {}}
                  \cup {TemplateNodeIds \ {n} : n \in TemplateNodeIds}]

\* stands for "the template was not looked at yet"
NoTemplateFile == [kind |-> None, nodes |-> {}]

\* load_workflow_template raises: only FileNotFoundError and JSONDecodeError are caught
LoadRaises(file) == file.kind = "unreadable"

\* load_workflow_template returns None (otherwise it returns the document)
LoadReturnsNone(file) == file.kind \in {"missing", "bad_json"}

\* "if not workflow": None or an empty document
TemplateIsFalsy(file) == LoadReturnsNone(file) \/ file.nodes = {}

\* a reduction that keeps the low 31 bits of the reading
MsModSeedModulus_pow2(ms) == ms.lo

\* A millisecond clock reading does not fit TLC's 32-bit integers: it is held
\* as hi * 2^31 + lo with 0 <= lo < 2^31. Since 2^31 = SeedModulus + 1, the
\* reading modulo SeedModulus is (hi + lo) modulo SeedModulus, computed here
\* without leaving the 32-bit range (hi < SeedModulus).
MsModSeedModulus(ms) ==
    LET sum == IF ms.lo >= SeedModulus - ms.hi
               THEN ms.lo - (SeedModulus - ms.hi)
               ELSE ms.lo + ms.hi
    IN  IF sum = SeedModulus THEN 0 ELSE sum

\* no clock reading was taken
NoMs == [hi |-> 0, lo |-> 0]

\* a seed that is taken from the clock whatever the request says
DeriveSeed_clock(s, ms) == MsModSeedModulus(ms)

\* "int(time.time() * 1000) % 2147483647" when seed is -1
DeriveSeed(s, ms) == IF s = -1 THEN MsModSeedModulus(ms) ELSE s

\* the job graph when none was built
NoWorkflow == [kind |-> "none"]

\* no second build was made
NoRebuild == [models |-> << >>, workflow |-> NoWorkflow]

\* create_fallback_workflow: the seven-node graph, by its literal inputs
create_fallback_workflow(prompt, mdl, steps, cfg, w, h, s, models, ms) ==
    [kind            |-> "fallback",
     nodes           |-> {"1", "2", "3", "4", "5", "6", "7"},
     ckpt_name       |-> IF Truthy(mdl) THEN mdl
                         ELSE IF models # << >> THEN models[1]
                         ELSE "model.safetensors",
     text            |-> prompt,
     negative        |-> "low quality, blurry, artifacts, bad anatomy",
     width           |-> w,
     height          |-> h,
     batch_size      |-> 1,
     seed            |-> DeriveSeed(s, ms),
     steps           |-> steps,
     cfg             |-> cfg,
     sampler_name    |-> "euler",
     scheduler       |-> "normal",
     denoise         |-> 1,
     filename_prefix |-> "TetrisAsset"]

\* the node ids create_workflow subscripts on the template path, lines 80-89
NodesWritten(mdl) ==
    {"47", "42", "45", "49", "46"} \cup (IF Truthy(mdl) THEN {"4"} ELSE {})

\* create_workflow raises KeyError: a node it subscripts is not in the document
TemplateRaises(file, mdl) ==
    ~TemplateIsFalsy(file) /\ ~(NodesWritten(mdl) \subseteq file.nodes)

\* create_workflow on the template path: the document with the request written in
TemplateWorkflow(file, prompt, mdl, steps, cfg, w, h, s, ms) ==
    [kind            |-> "template",
     nodes           |-> file.nodes,
     ckpt_name       |-> IF Truthy(mdl) THEN mdl
                         ELSE IF "4" \in file.nodes THEN "flux1-dev.gguf" ELSE None,
     text            |-> prompt,
     noise_seed      |-> DeriveSeed(s, ms),
     steps           |-> steps,
     guidance        |-> cfg,
     width           |-> w,
     height          |-> h,
     filename_prefix |-> IF "66" \in file.nodes THEN "ComfyUI" ELSE None]

\* create_workflow, when it raises nothing
create_workflow(file, prompt, mdl, steps, cfg, w, h, s, models, ms) ==
    IF TemplateIsFalsy(file)
    THEN create_fallback_workflow(prompt, mdl, steps, cfg, w, h, s, models, ms)
    ELSE TemplateWorkflow(file, prompt, mdl, steps, cfg, w, h, s, ms)

\* generate_asset lines 213-214: the asset name as the SaveImage prefix of node 66
SetAssetPrefix(wf, name) ==
    IF Truthy(name) /\ "66" \in wf.nodes
    THEN [wf EXCEPT !.filename_prefix = name]
    ELSE wf

-----------------------------------------------------------------------------
(* Protocol client, continued *)

\* POST /prompt answers: a failure, an unparsable body, a body that is not a
\* JSON object, a body without
\* "prompt_id", a body whose "prompt_id" is empty, a body with the identifier
SubmitResponses ==
    TransportFailures
    \cup {"bad_json", "bad_shape", "no_prompt_id", "empty_prompt_id", "ok"}

\* a submit that turns a missing identifier into the text of None
queue_prompt_str(resp) ==
    IF resp \in {"ok", "no_prompt_id"} THEN "abc123"
    ELSE IF resp = "empty_prompt_id" THEN ""
    ELSE None

\* queue_prompt: result.get("prompt_id"), None on any exception
queue_prompt(resp) ==
    IF resp = "ok" THEN "abc123"
    ELSE IF resp = "empty_prompt_id" THEN ""
    ELSE None

\* the file name the server gives its k-th output image
ServerStems ==
    << "TetrisAsset_00001_", "TetrisAsset_00002_", "TetrisAsset_00003_",
       "TetrisAsset_00004_", "TetrisAsset_00005_", "TetrisAsset_00006_",
       "TetrisAsset_00007_", "TetrisAsset_00008_" >>

\* A file name is held by what os.path.splitext and pathlib see in it:
\* whether it starts at the root, its directory components, and the stem and
\* the extension of its last component.  "TetrisAsset_00001_.png":
ServerFile(k) ==
    [abs |-> FALSE, dirs |-> << >>, stem |-> ServerStems[k], ext |-> ".png"]

NoFile == [abs |-> FALSE, dirs |-> << >>, stem |-> None, ext |-> None]

\* The shapes of name a server may report in "filename": the plain name,
\* another extension ("x.webp"), no extension ("x"), a name with a directory
\* ("previews/x.png"), with a parent-directory component ("../x.png"), or
\* from the root ("/tmp/x.png")
NamingSchemes == {"plain", "webp", "bare", "subdir", "parent", "absolute"}

\* the plain name f as the server reports it under a scheme
NamedFile(f, scheme) ==
    CASE scheme = "plain"    -> f
      [] scheme = "webp"     -> [f EXCEPT !.ext = ".webp"]
      [] scheme = "bare"     -> [f EXCEPT !.ext = ""]
      [] scheme = "subdir"   -> [f EXCEPT !.dirs = << "previews" >>]
      [] scheme = "parent"   -> [f EXCEPT !.dirs = << ".." >>]
      [] scheme = "absolute" -> [f EXCEPT !.abs = TRUE, !.dirs = << "tmp" >>]

\* the image entries of one output node: entry i is the (base + i)-th image of
\* the job; flags[i] tells whether the entry has its "filename" key
NodeOf(flags, base) ==
    [images |-> [i \in 1..Len(flags) |->
                    [has_filename |-> flags[i],
                     filename     |-> IF flags[i] THEN ServerFile(base + i) ELSE NoFile,
                     subfolder    |-> ""]]]

RECURSIVE SumLen(_)
SumLen(ss) == IF ss = << >> THEN 0 ELSE Len(ss[1]) + SumLen(Tail(ss))

\* the "outputs" mapping, in its order, for a shape: per node the flags of its entries
OutputsOf(shape) ==
    [n \in 1..Len(shape) |-> NodeOf(shape[n], SumLen(SubSeq(shape, 1, n - 1)))]

BoolSeqs(n) == UNION {[1..k -> BOOLEAN] : k \in 0..n}

Shapes ==
    {sh \in UNION {[1..k -> BoolSeqs(MaxImages)] : k \in 0..MaxNodes} :
        SumLen(sh) <= MaxImages}

\* Values of history.get(prompt_id): None, the empty record {}, a record
\* without "outputs", a record with "outputs"
NoneHistory == [is_none |-> TRUE, has_status |-> FALSE, has_outputs |-> FALSE,
                outputs |-> << >>]

HistoryRecords ==
    [is_none : {FALSE}, has_status : BOOLEAN, has_outputs : {FALSE}, outputs : {<< >>}]
    \cup {[is_none |-> FALSE, has_status |-> TRUE, has_outputs |-> TRUE,
           outputs |-> OutputsOf(sh)] : sh \in Shapes}

\* a record with its file names reported under a scheme
Renamed(rec, scheme) ==
    [rec EXCEPT !.outputs =
        [n \in 1..Len(rec.outputs) |->
            [images |->
                [i \in 1..Len(rec.outputs[n].images) |->
                    LET e == rec.outputs[n].images[i]
                    IN  IF e.has_filename
                        THEN [e EXCEPT !.filename = NamedFile(e.filename, scheme)]
                        ELSE e]]]]

\* GET /history/{id} answers: a failure, an unparsable body, a body that is
\* not a JSON object, a body without the prompt id, a body with a record
\* under the prompt id, its file names in one of the schemes
HistoryResponsesNamed(schemes) ==
    [kind : TransportFailures \cup {"bad_json", "bad_shape", "no_entry"},
     record : {NoneHistory}]
    \cup [kind : {"entry"},
          record : {Renamed(rec, sch) : rec \in HistoryRecords, sch \in schemes}]

\* the answers of the runs of the model: plain file names
HistoryResponses == HistoryResponsesNamed({"plain"})

\* the answers with file names of every scheme
HistoryResponsesAnyName == HistoryResponsesNamed(NamingSchemes)

\* get_history: history.get(prompt_id), None on any exception
get_history(resp) == IF resp.kind = "entry" THEN resp.record ELSE NoneHistory

\* a test that takes every record but None, as "if history is not None" does
HistoryIsTruthy_not_none(h) == ~h.is_none

\* "if history:": not None and not the empty dict
HistoryIsTruthy(h) == ~h.is_none /\ (h.has_status \/ h.has_outputs)

\* GET /view answers: a failure, an empty body, the image bytes
DownloadResponses == TransportFailures \cup {"empty_body", "ok"}

\* a download that hands back the bytes read before a timeout
download_image_partial(resp) ==
    IF resp = "ok" THEN "PNGDATA"
    ELSE IF resp = "timeout" THEN "PNG"
    ELSE IF resp = "empty_body" THEN ""
    ELSE None

\* download_image: response.read(), None on any exception
download_image(resp) ==
    IF resp = "ok" THEN "PNGDATA"
    ELSE IF resp = "empty_body" THEN ""
    ELSE None

\* the image entries with the output nodes visited last to first
RECURSIVE ImageEntries_reversed(_)
ImageEntries_reversed(outputs) ==
    IF outputs = << >> THEN << >>
    ELSE ImageEntries_reversed(Tail(outputs)) \o outputs[1].images

\* "for node_id, node_output in outputs.items(): for image_info in images":
\* the image entries in the order the two loops visit them
RECURSIVE ImageEntries(_)
ImageEntries(outputs) ==
    IF outputs = << >> THEN << >>
    ELSE outputs[1].images \o ImageEntries(Tail(outputs))

\* The --name strings of the model as pathlib reads them when they start a
\* file name: from the root or not, the directory components, and the rest.
NameAsPath(name) ==
    CASE name = "../hero" -> [abs |-> FALSE, dirs |-> << ".." >>, base |-> "hero"]
      [] OTHER            -> [abs |-> FALSE, dirs |-> << >>, base |-> name]

\* a local name that drops the extension of the server's name
LocalFile_no_ext(name, filename) ==
    IF Truthy(name)
    THEN [abs  |-> NameAsPath(name).abs,
          dirs |-> NameAsPath(name).dirs,
          stem |-> NameAsPath(name).base,
          ext  |-> ""]
    ELSE filename

\* lines 256-260: local_filename, f"{asset_name}{ext}" with the ext of
\* os.path.splitext(filename), or filename itself
LocalFile(name, filename) ==
    IF Truthy(name)
    THEN [abs  |-> NameAsPath(name).abs,
          dirs |-> NameAsPath(name).dirs,
          stem |-> NameAsPath(name).base,
          ext  |-> filename.ext]
    ELSE filename

\* Path("./assets").parts
OutputDir == << "assets" >>

\* the directory the process runs in
Cwd == << "home", "user", "game" >>

\* pathlib's "/": a right operand that starts at the root replaces the left one
Join(dir, f) == IF f.abs THEN f ELSE [f EXCEPT !.dirs = dir \o f.dirs]

\* line 262: local_path = self.output_dir / local_filename
LocalPath(name, filename) == Join(OutputDir, LocalFile(name, filename))

\* Path.absolute(): the working directory in front of a relative path, no
\* component resolved
Absolute(path) ==
    IF path.abs THEN path ELSE [path EXCEPT !.abs = TRUE, !.dirs = Cwd \o path.dirs]

NoPath == [abs |-> FALSE, dirs |-> << >>, stem |-> None, ext |-> None]

-----------------------------------------------------------------------------
(* Inputs *)

\* "512x512" and the like, character by character
SizeArgs ==
    { << "5", "1", "2", "x", "2", "5", "6" >>,
      << "5", "1", "2" >>,
      << "5", "1", "2", "x" >>,
      << "a", "x", "b" >>,
      << "1", "x", "2", "x", "3" >>,
      << "5", "1", "2", "X", "5", "1", "2" >> }

\* the characters of the --size strings tried one by one: digits, the
\* separator, a letter, and the sign, blank and underscore int() knows
SizeChars == {"0", "7", "x", "a", "-", " ", "_"}

\* every string of at most MaxSizeLen of these characters
SizeSamples == UNION {[1..n -> SizeChars] : n \in 0..MaxSizeLen}

\* the --name, --model and --seed arguments of the runs of the model
Requests ==
    { [asset_name |-> None,   model |-> None,        seed |-> -1],
      [asset_name |-> "hero", model |-> None,        seed |-> 42],
      [asset_name |-> "hero", model |-> "sdxl.ckpt", seed |-> -1],
      [asset_name |-> None,   model |-> "sdxl.ckpt", seed |-> 42],
      [asset_name |-> "../hero", model |-> "sdxl.ckpt", seed |-> 42] }

\* readings of the millisecond clock, as hi * 2^31 + lo:
\* 1762089600123 and 1765231557834 (a multiple of SeedModulus)
ClockMs == {[hi |-> 820, lo |-> 1153008763], [hi |-> 821, lo |-> 2147482826]}

\* Readings of the millisecond clock for the seed derivation alone, as
\* hi * 2^31 + lo: 0, SeedModulus - 1, SeedModulus, 2^31, 1762089600123,
\* 1765231557834 (a multiple of SeedModulus), 1765231557835, and
\* 1765231558655 (lo at its greatest)
ClockSamples ==
    { [hi |-> 0,   lo |-> 0],
      [hi |-> 0,   lo |-> 2147483646],
      [hi |-> 0,   lo |-> 2147483647],
      [hi |-> 1,   lo |-> 0],
      [hi |-> 820, lo |-> 1153008763],
      [hi |-> 821, lo |-> 2147482826],
      [hi |-> 821, lo |-> 2147482827],
      [hi |-> 821, lo |-> 2147483647] }

Prompt == "pixel art tetris block"

-----------------------------------------------------------------------------
(* State machine *)

Init ==
    /\ pc = "main"
    /\ size = << >>
    /\ asset_name = None
    /\ model = None
    /\ seed = -1
    /\ width = 0
    /\ height = 0
    /\ healthResp = None
    /\ template = NoTemplateFile
    /\ objectInfo = NoObjectInfo
    /\ time_ms = NoMs
    /\ workflow = NoWorkflow
    /\ rebuilt = NoRebuild
    /\ submitResp = None
    /\ prompt_id = None
    /\ clock = 0
    /\ start_time = 0
    /\ elapsed = 0
    /\ history = NoneHistory
    /\ cursor = 0
    /\ image_data = None
    /\ lastDownload = None
    /\ requested = << >>
    /\ files = {}
    /\ result = NoPath
    /\ outcome = "Running"
    /\ exit_code = -1
    /\ healthCalls = 0
    /\ modelCalls = 0
    /\ submitCalls = 0
    /\ histCalls = 0

argVars == << size, asset_name, model, seed, width, height >>
buildVars == << template, objectInfo, time_ms, workflow, rebuilt, modelCalls >>
submitVars == << submitResp, prompt_id, submitCalls >>
pollVars == << clock, start_time, elapsed, history, histCalls >>
imageVars == << cursor, image_data, lastDownload, requested, files >>

\* the interpreter ends the process with this status on an uncaught exception
ExitUncaught == ExitFailure

\* generate_asset returns value r after printing message msg
Return(r, msg) ==
    /\ pc' = "returned"
    /\ result' = r
    /\ outcome' = msg

\* an exception no handler catches ends the process
Crash(msg) ==
    /\ pc' = "exited"
    /\ outcome' = msg
    /\ exit_code' = ExitUncaught
    /\ UNCHANGED result

\* main, lines 307-314: the arguments (--size one of sizes), and the size
\* parsed or rejected
ParseArgsFrom(sizes) ==
    /\ pc = "main"
    /\ \E sz \in sizes, req \in Requests :
        /\ size' = sz
        /\ asset_name' = req.asset_name
        /\ model' = req.model
        /\ seed' = req.seed
        /\ IF SizeIsValid(sz)
           THEN /\ width' = ParseSize(sz)[1]
                /\ height' = ParseSize(sz)[2]
                /\ pc' = "construct"
                /\ UNCHANGED << outcome, exit_code >>
           ELSE /\ pc' = "exited"
                /\ outcome' = "InvalidSizeFormat"
                /\ exit_code' = ExitSuccess
                /\ UNCHANGED << width, height >>
    /\ UNCHANGED << healthResp, healthCalls, result >>
    /\ UNCHANGED << buildVars, submitVars, pollVars, imageVars >>

\* the start of main, at the --size strings of the runs of the model
ParseArgs == ParseArgsFrom(SizeArgs)

\* main, lines 316-321, and __init__: output_dir.mkdir(exist_ok=True)
Construct ==
    /\ pc = "construct"
    /\ \E mk \in {"ok", "os_error"} :
        IF mk = "ok"
        THEN /\ pc' = "health"
             /\ UNCHANGED << outcome, exit_code, result >>
        ELSE Crash("MkdirRaised")
    /\ UNCHANGED << healthResp, healthCalls >>
    /\ UNCHANGED << argVars, buildVars, submitVars, pollVars, imageVars >>

\* generate_asset, lines 203-205
HealthCheck ==
    /\ pc = "health"
    /\ \E resp \in HealthResponses :
        /\ healthResp' = resp
        /\ healthCalls' = healthCalls + 1
        /\ IF is_server_running(resp)
           THEN /\ pc' = "build"
                /\ UNCHANGED << result, outcome >>
           ELSE Return(NoPath, "ServerUnavailable")
    /\ UNCHANGED exit_code
    /\ UNCHANGED << argVars, buildVars, submitVars, pollVars, imageVars >>

\* generate_asset, lines 210-214: create_workflow with the template lookup,
\* the get_models call of the fallback, the clock reading of the seed (one of
\* clocks), and the asset name written to node 66
BuildWorkflowAt(clocks) ==
    /\ pc = "build"
    /\ \E file \in TemplateFiles :
        /\ template' = file
        /\ IF LoadRaises(file)
           THEN /\ Crash("TemplateLoadRaised")
                /\ UNCHANGED << objectInfo, time_ms, workflow, modelCalls >>
           ELSE IF TemplateRaises(file, model)
           THEN /\ Crash("TemplateKeyError")
                /\ time_ms' \in (IF seed = -1 THEN clocks ELSE {NoMs})
                /\ UNCHANGED << objectInfo, workflow, modelCalls >>
           ELSE \E info \in (IF TemplateIsFalsy(file) /\ ~Truthy(model)
                              THEN ObjectInfoResponses ELSE {NoObjectInfo}) :
                  /\ objectInfo' = info
                  /\ modelCalls' = modelCalls + (IF info = NoObjectInfo THEN 0 ELSE 1)
                  /\ IF Escapes(RaisedOn(info.kind))
                     THEN /\ Crash("ClientRaised")
                          /\ UNCHANGED << time_ms, workflow >>
                     ELSE /\ \E ms \in (IF seed = -1 THEN clocks ELSE {NoMs}) :
                               /\ time_ms' = ms
                               /\ workflow' = SetAssetPrefix(
                                      create_workflow(file, Prompt, model, DefaultSteps,
                                                      DefaultCfg, width, height, seed,
                                                      get_models(info), ms),
                                      asset_name)
                          /\ pc' = "submit"
                          /\ UNCHANGED << result, outcome, exit_code >>
    /\ UNCHANGED << healthResp, healthCalls, rebuilt >>
    /\ UNCHANGED << argVars, submitVars, pollVars, imageVars >>

\* the build of one invocation, at the clock readings of the runs of the model
BuildWorkflow == BuildWorkflowAt(ClockMs)

\* generate_asset, lines 216-225
Submit ==
    /\ pc = "submit"
    /\ \E resp \in SubmitResponses :
        /\ submitResp' = resp
        /\ submitCalls' = submitCalls + 1
        /\ IF Escapes(RaisedOn(resp))
           THEN /\ Crash("ClientRaised")
                /\ UNCHANGED << prompt_id, start_time >>
           ELSE /\ prompt_id' = queue_prompt(resp)
                /\ UNCHANGED exit_code
                /\ IF Truthy(queue_prompt(resp))
                   THEN /\ pc' = "poll"
                        /\ start_time' = clock
                        /\ UNCHANGED << result, outcome >>
                   ELSE /\ Return(NoPath, "SubmitFailed")
                        /\ UNCHANGED start_time
    /\ UNCHANGED << healthResp, healthCalls >>
    /\ UNCHANGED << clock, elapsed, history, histCalls >>
    /\ UNCHANGED << argVars, buildVars, imageVars >>

\* a timeout test that takes the ceiling for milliseconds
TimedOut_ms(e) == e > PollTimeout * 1000

\* "if elapsed > 120"
TimedOut(e) == e > PollTimeout

\* generate_asset, lines 227-230 and 282-283: one get_history call, answered
\* by one of responses; a truthy
\* record ends the polling, anything else leads to the sleep.  Once the
\* record is there the code reads neither the clock nor start_time nor
\* elapsed again (line 230 prints elapsed): the model stops the clock there
\* and holds the three at 0.
PollHistoryFrom(responses) ==
    /\ pc = "poll"
    /\ \E resp \in responses :
        /\ histCalls' = IF histCalls < HistCap THEN histCalls + 1 ELSE histCalls
        /\ IF Escapes(RaisedOn(resp.kind))
           THEN /\ Crash("ClientRaised")
                /\ UNCHANGED << history, cursor, clock, start_time, elapsed >>
           ELSE /\ history' = get_history(resp)
                /\ UNCHANGED << result, outcome, exit_code >>
                /\ IF HistoryIsTruthy(get_history(resp))
                   THEN /\ cursor' = 1
                        /\ pc' = "process"
                        /\ clock' = 0
                        /\ start_time' = 0
                        /\ elapsed' = 0
                   ELSE /\ pc' = "sleep"
                        /\ \E lag \in 0..MaxLag : clock' = clock + lag
                        /\ elapsed' = clock' - start_time
                        /\ UNCHANGED << cursor, start_time >>
    /\ UNCHANGED << healthResp, healthCalls >>
    /\ UNCHANGED << image_data, lastDownload, requested, files >>
    /\ UNCHANGED << argVars, buildVars, submitVars >>

\* one poll, at the answers of the runs of the model
PollHistory == PollHistoryFrom(HistoryResponses)

\* generate_asset, lines 284-289: the sleep, then the timeout test on the
\* elapsed time taken before the sleep
SleepThenCheck ==
    /\ pc = "sleep"
    /\ \E lag \in 0..MaxLag : clock' = clock + PollInterval + lag
    /\ IF TimedOut(elapsed)
       THEN Return(NoPath, "TimedOut")
       ELSE /\ pc' = "poll"
            /\ UNCHANGED << result, outcome >>
    /\ UNCHANGED << healthResp, healthCalls, exit_code >>
    /\ UNCHANGED << start_time, elapsed, history, histCalls >>
    /\ UNCHANGED << argVars, buildVars, submitVars, imageVars >>

\* a test that skips only a download that returned None
DownloadRejected_none(data) == data = None

\* "if not image_data: continue"
DownloadRejected(data) == ~Truthy(data)

\* a "continue" that asks for the same image again
AfterContinue_retry(c) == c

\* "continue": the inner loop goes on to the next image entry
AfterContinue(c) == c + 1

\* generate_asset, lines 243-278: one iteration of the image loops: the
\* download, then either "continue" or the file write and the return; an
\* exception inside the try of line 233 ends in the handler of line 274
ProcessImage ==
    /\ pc = "process"
    /\ cursor <= Len(ImageEntries(history.outputs))
    /\ LET entry == ImageEntries(history.outputs)[cursor]
       IN  IF ~entry.has_filename
           THEN /\ Return(NoPath, "ProcessingError")
                /\ UNCHANGED imageVars
           ELSE \E resp \in DownloadResponses :
                  /\ lastDownload' = resp
                  /\ requested' = Append(requested, entry.filename)
                  /\ image_data' = IF Escapes(RaisedOn(resp)) THEN image_data
                                   ELSE download_image(resp)
                  /\ IF Escapes(RaisedOn(resp))
                     THEN /\ Return(NoPath, "ProcessingError")
                          /\ UNCHANGED << cursor, files >>
                     ELSE IF DownloadRejected(download_image(resp))
                     THEN /\ cursor' = AfterContinue(cursor)
                          /\ UNCHANGED << pc, result, outcome, files >>
                     ELSE \E written \in {"ok", "os_error"} :
                            /\ UNCHANGED cursor
                            /\ IF written = "ok"
                               THEN /\ files' = files \cup
                                          {[path |-> LocalPath(asset_name, entry.filename),
                                            data |-> download_image(resp)]}
                                    /\ Return(Absolute(LocalPath(asset_name, entry.filename)),
                                              "Saved")
                               ELSE /\ Return(NoPath, "ProcessingError")
                                    /\ UNCHANGED files
    /\ UNCHANGED << healthResp, healthCalls, exit_code >>
    /\ UNCHANGED << argVars, buildVars, submitVars, pollVars >>

\* the end of the loops taken as "not ready": back to the poll
NoImagesFound_repoll ==
    /\ pc = "process"
    /\ cursor > Len(ImageEntries(history.outputs))
    /\ pc' = "poll"
    /\ UNCHANGED << healthResp, healthCalls, result, outcome, exit_code >>
    /\ UNCHANGED << argVars, buildVars, submitVars, pollVars, imageVars >>

\* the end of the loops taken as an error of the processing
NoImagesFound_raises ==
    /\ pc = "process"
    /\ cursor > Len(ImageEntries(history.outputs))
    /\ Return(NoPath, "ProcessingError")
    /\ UNCHANGED << healthResp, healthCalls, exit_code >>
    /\ UNCHANGED << argVars, buildVars, submitVars, pollVars, imageVars >>

\* generate_asset, lines 271-272: the loops end without a return
NoImagesFound ==
    /\ pc = "process"
    /\ cursor > Len(ImageEntries(history.outputs))
    /\ Return(NoPath, "NoOutputProduced")
    /\ UNCHANGED << healthResp, healthCalls, exit_code >>
    /\ UNCHANGED << argVars, buildVars, submitVars, pollVars, imageVars >>

\* main, lines 335-339
Finish ==
    /\ pc = "returned"
    /\ pc' = "exited"
    /\ exit_code' = IF result # NoPath THEN ExitSuccess ELSE ExitFailure
    /\ UNCHANGED << healthResp, healthCalls, result, outcome >>
    /\ UNCHANGED << argVars, buildVars, submitVars, pollVars, imageVars >>

Next ==
    \/ ParseArgs
    \/ Construct
    \/ HealthCheck
    \/ BuildWorkflow
    \/ Submit
    \/ PollHistory
    \/ SleepThenCheck
    \/ ProcessImage
    \/ NoImagesFound
    \/ Finish

Spec == Init /\ [][Next]_vars

\* The state in which generate_asset reaches queue_prompt for the default
\* request (no --name, no --model, --seed -1, --size 512x256) when the
\* template is missing and the server lists two checkpoints: a state Spec
\* reaches (TLC finds NotPollInit violated under Spec), taken as the start of
\* the submit-and-poll part.
PollInit ==
    /\ pc = "submit"
    /\ size = << "5", "1", "2", "x", "2", "5", "6" >>
    /\ asset_name = None
    /\ model = None
    /\ seed = -1
    /\ width = 512
    /\ height = 256
    /\ healthResp = "ok"
    /\ template = [kind |-> "missing", nodes |-> {}]
    /\ objectInfo = [kind |-> "ok", checkpoints |-> << "sdxl.ckpt", "anime.ckpt" >>]
    /\ time_ms = [hi |-> 820, lo |-> 1153008763]
    /\ workflow = SetAssetPrefix(
           create_workflow(template, Prompt, model, DefaultSteps, DefaultCfg,
                           width, height, seed, get_models(objectInfo), time_ms),
           asset_name)
    /\ rebuilt = NoRebuild
    /\ submitResp = None
    /\ prompt_id = None
    /\ clock = 0
    /\ start_time = 0
    /\ elapsed = 0
    /\ history = NoneHistory
    /\ cursor = 0
    /\ image_data = None
    /\ lastDownload = None
    /\ requested = << >>
    /\ files = {}
    /\ result = NoPath
    /\ outcome = "Running"
    /\ exit_code = -1
    /\ healthCalls = 1
    /\ modelCalls = 1
    /\ submitCalls = 0
    /\ histCalls = 0

\* the steps of generate_asset from queue_prompt on, and the end of main
PollNext ==
    \/ Submit
    \/ PollHistory
    \/ SleepThenCheck
    \/ ProcessImage
    \/ NoImagesFound
    \/ Finish

\* The submit-and-poll part under the scheduling of the one thread the
\* program is: every call returns and every sleep ends, so a step that can be
\* taken is taken.
PollSpec == PollInit /\ [][PollNext]_vars /\ WF_vars(PollNext)

\* The states in which generate_asset enters the poll loop: any request of
\* the model, --size 512x256, the template missing, the model list (when it
\* was asked for) of two checkpoints, the job accepted as "abc123".  Spec
\* reaches them (TLC finds NotPersistInit violated under Spec).
PersistInit ==
    /\ pc = "poll"
    /\ size = << "5", "1", "2", "x", "2", "5", "6" >>
    /\ \E req \in Requests :
        /\ asset_name = req.asset_name
        /\ model = req.model
        /\ seed = req.seed
    /\ width = 512
    /\ height = 256
    /\ healthResp = "ok"
    /\ template = [kind |-> "missing", nodes |-> {}]
    /\ objectInfo = IF Truthy(model) THEN NoObjectInfo
                    ELSE [kind |-> "ok", checkpoints |-> << "sdxl.ckpt", "anime.ckpt" >>]
    /\ time_ms = IF seed = -1 THEN [hi |-> 820, lo |-> 1153008763] ELSE NoMs
    /\ workflow = SetAssetPrefix(
           create_workflow(template, Prompt, model, DefaultSteps, DefaultCfg,
                           width, height, seed, get_models(objectInfo), time_ms),
           asset_name)
    /\ rebuilt = NoRebuild
    /\ submitResp = "ok"
    /\ prompt_id = queue_prompt(submitResp)
    /\ clock = 0
    /\ start_time = 0
    /\ elapsed = 0
    /\ history = NoneHistory
    /\ cursor = 0
    /\ image_data = None
    /\ lastDownload = None
    /\ requested = << >>
    /\ files = {}
    /\ result = NoPath
    /\ outcome = "Running"
    /\ exit_code = -1
    /\ healthCalls = 1
    /\ modelCalls = IF Truthy(model) THEN 0 ELSE 1
    /\ submitCalls = 1
    /\ histCalls = 0

\* one poll, answered with file names of any scheme
PollHistoryNamed == PollHistoryFrom(HistoryResponsesAnyName)

PersistNext ==
    \/ PollHistoryNamed
    \/ SleepThenCheck
    \/ ProcessImage
    \/ NoImagesFound
    \/ Finish

\* the poll loop, the downloads and the file write, for every scheme of file
\* name the server may report
PersistSpec == PersistInit /\ [][PersistNext]_vars

\* the start of main, at every sampled --size string
ParseSizeSamples == ParseArgsFrom(SizeSamples)

SizeNext ==
    \/ ParseSizeSamples
    \/ Construct

\* main up to the construction of the client
SizeSpec == Init /\ [][SizeNext]_vars

\* The states in which generate_asset reaches create_workflow: any request of
\* the model, --size 512x256, the server answered the health check.  Spec
\* reaches them (TLC finds NotBuilderInit violated under Spec).
BuilderInit ==
    /\ pc = "build"
    /\ size = << "5", "1", "2", "x", "2", "5", "6" >>
    /\ \E req \in Requests :
        /\ asset_name = req.asset_name
        /\ model = req.model
        /\ seed = req.seed
    /\ width = 512
    /\ height = 256
    /\ healthResp = "ok"
    /\ template = NoTemplateFile
    /\ objectInfo = NoObjectInfo
    /\ time_ms = NoMs
    /\ workflow = NoWorkflow
    /\ rebuilt = NoRebuild
    /\ submitResp = None
    /\ prompt_id = None
    /\ clock = 0
    /\ start_time = 0
    /\ elapsed = 0
    /\ history = NoneHistory
    /\ cursor = 0
    /\ image_data = None
    /\ lastDownload = None
    /\ requested = << >>
    /\ files = {}
    /\ result = NoPath
    /\ outcome = "Running"
    /\ exit_code = -1
    /\ healthCalls = 1
    /\ modelCalls = 0
    /\ submitCalls = 0
    /\ histCalls = 0

\* the build of one invocation, at any of the sampled clock readings
BuildAtSamples == BuildWorkflowAt(ClockSamples)

\* create_fallback_workflow called a second time with the arguments of the
\* first build: the get_models call when no model name is given (line 99),
\* the clock as it stands then (read at line 104 when the seed is -1)
RebuildFallback ==
    /\ pc = "submit"
    /\ workflow.kind = "fallback"
    /\ rebuilt = NoRebuild
    /\ \E info \in (IF Truthy(model) THEN {NoObjectInfo} ELSE ObjectInfoResponses),
          ms \in ClockSamples :
        /\ rebuilt' = [models   |-> get_models(info),
                       workflow |-> create_fallback_workflow(
                                        Prompt, model, DefaultSteps, DefaultCfg,
                                        width, height, seed, get_models(info), ms)]
        /\ modelCalls' = modelCalls + (IF info = NoObjectInfo THEN 0 ELSE 1)
    /\ UNCHANGED << pc, healthResp, healthCalls, result, outcome, exit_code >>
    /\ UNCHANGED << template, objectInfo, time_ms, workflow >>
    /\ UNCHANGED << argVars, submitVars, pollVars, imageVars >>

BuilderNext ==
    \/ BuildAtSamples
    \/ RebuildFallback

\* the workflow builder alone: one build, and a second build of the fallback graph
BuilderSpec == BuilderInit /\ [][BuilderNext]_vars

-----------------------------------------------------------------------------
(* Properties *)

\* the messages generate_asset returns None with
FailureMessages ==
    {"ServerUnavailable", "SubmitFailed", "TimedOut", "NoOutputProduced",
     "ProcessingError"}

\* generate_asset has returned
Returned == outcome \in FailureMessages \cup {"Saved"}

\* the image entries of the record obtained, in mapping order
Entries == ImageEntries(history.outputs)

\* C1: when the health check fails (any failure of GET /system_stats), the
\* invocation has returned no path with the server-unavailable message, and
\* no template was loaded, no workflow built, no model list asked for, no
\* submit, no history poll, no download and no file write took place.
C1_ServerUnavailable ==
    (healthCalls > 0 /\ healthResp # "ok") =>
        /\ Returned
        /\ outcome = "ServerUnavailable"
        /\ result = NoPath
        /\ template = NoTemplateFile
        /\ workflow = NoWorkflow
        /\ modelCalls = 0
        /\ submitCalls = 0
        /\ histCalls = 0
        /\ requested = << >>
        /\ files = {}

C1_Witness ==
    pc = "exited" /\ healthResp = "http_error" /\ outcome = "ServerUnavailable"

\* C2: from every poll the loop reaches a record or the timeout; while it
\* polls, the time since the start of polling stays within the ceiling plus
\* one sleep and the lag of one call and one sleep; an invocation that timed
\* out obtained no record, requested no image, wrote no file, returned no path.
C2_PollTerminates ==
    /\ (pc = "poll") ~> (HistoryIsTruthy(history) \/ outcome = "TimedOut")
    /\ [](pc \in {"poll", "sleep"} =>
            clock - start_time <= PollTimeout + PollInterval + 2 * MaxLag)
    /\ [](outcome = "TimedOut" =>
            /\ ~HistoryIsTruthy(history)
            /\ requested = << >>
            /\ files = {}
            /\ result = NoPath)

C2_Witness ==
    pc = "exited" /\ outcome = "TimedOut" /\ histCalls = HistCap /\ submitResp = "ok"

\* violated under Spec: the start of PollSpec is a state Spec reaches
NotPollInit == ~PollInit

C4_SubmitFailed ==
    (submitCalls > 0 /\ submitResp # "ok") =>
        /\ Returned
        /\ outcome = "SubmitFailed"
        /\ result = NoPath
        /\ histCalls = 0
        /\ history = NoneHistory
        /\ requested = << >>
        /\ files = {}

C4_Witness ==
    pc = "exited" /\ submitResp = "no_prompt_id" /\ outcome = "SubmitFailed"

\* C5: when the record obtained has no output node with a non-empty images
\* sequence, the invocation requests no image and writes no file, and when it
\* has returned it returned no path with the no-images message.
C5_NoOutputProduced ==
    (HistoryIsTruthy(history) /\ \A n \in 1..Len(history.outputs) :
                                    history.outputs[n].images = << >>) =>
        /\ requested = << >>
        /\ files = {}
        /\ result = NoPath
        /\ Returned => outcome = "NoOutputProduced"

C5_Witness ==
    /\ pc = "exited"
    /\ outcome = "NoOutputProduced"
    /\ Len(history.outputs) = 2
    /\ history.outputs[1].images = << >>
    /\ history.outputs[2].images = << >>

\* the checkpoint names of the answer, as a set
CheckpointSet(info) == {info.checkpoints[i] : i \in 1..Len(info.checkpoints)}

ExpectedNodeIds == {"47", "42", "45", "49", "46", "4"}

\* C7 as claimed: whatever the template lookup finds (no file, a file that is
\* not JSON, a document lacking one of the expected node ids), a graph is
\* built and the invocation goes on to submit; it never ends with an uncaught
\* exception.
C7_TemplateTolerated ==
    (template.kind \in {"missing", "bad_json"}
       \/ (template.kind = "doc" /\ ~(ExpectedNodeIds \subseteq template.nodes))) =>
        /\ outcome # "TemplateKeyError"
        /\ workflow # NoWorkflow

C9_ExitCodeZeroIffSaved ==
    pc = "exited" => (exit_code = ExitSuccess <=> outcome = "Saved")

\* C10: within one invocation the health check is made at most once, the
\* model list is asked for at most once, submit is made at most once also
\* when it failed, and no image reference is requested twice; the history
\* poll is the one call that repeats.
C10_NoRetry ==
    /\ healthCalls <= 1
    /\ modelCalls <= 1
    /\ submitCalls <= 1
    /\ \A i, j \in 1..Len(requested) : requested[i] = requested[j] => i = j

C10_Witness ==
    /\ pc = "exited"
    /\ healthCalls = 1
    /\ submitCalls = 1
    /\ histCalls = HistCap
    /\ Len(requested) = 2
    /\ lastDownload # "ok"

\* violated under Spec: the starts of BuilderSpec are states Spec reaches
NotBuilderInit == ~BuilderInit

\* the seed a job graph carries
GraphSeed(wf) == IF wf.kind = "template" THEN wf.noise_seed ELSE wf.seed

\* C11: for a request with seed -1 the seed in the graph, on the template
\* path and on the fallback path, is the millisecond clock reading modulo
\* 2147483647: it lies in [0, 2147483647) and differs from the reading
\* hi * 2^31 + lo = hi * 2147483647 + (hi + lo) by a multiple of 2147483647.
C11_DerivedSeedInRange ==
    (seed = -1 /\ workflow # NoWorkflow) =>
        /\ GraphSeed(workflow) >= 0
        /\ GraphSeed(workflow) < SeedModulus
        /\ (time_ms.lo - GraphSeed(workflow)) + time_ms.hi \in {0, SeedModulus}

C11_Witness ==
    /\ seed = -1
    /\ workflow.kind = "template"
    /\ time_ms = [hi |-> 821, lo |-> 2147483647]
    /\ workflow.noise_seed = 821
    /\ pc = "submit"

\* the checkpoint name the fallback graph gets from a model list
FirstOrDefault(models) ==
    IF models # << >> THEN models[1] ELSE "model.safetensors"

\* C12 as claimed: two builds of the fallback graph from the same request
\* with a fixed seed are identical graphs, also for a request without a model
\* name and whatever the clock and the server's model list are at each build.
C12_RebuildIdentical ==
    (rebuilt # NoRebuild /\ seed # -1) => rebuilt.workflow = workflow

\* C12 as amended: with a fixed seed the two graphs agree in everything but
\* the checkpoint name; they are identical when the request names the model,
\* and without a model name exactly when the first name of the sorted model
\* list (the fixed default name for an empty list) is the same at both builds.
C12_RebuildIdenticalUpToModel ==
    (rebuilt # NoRebuild /\ seed # -1) =>
        /\ [rebuilt.workflow EXCEPT !.ckpt_name = workflow.ckpt_name] = workflow
        /\ Truthy(model) => rebuilt.workflow = workflow
        /\ ~Truthy(model) =>
              (rebuilt.workflow = workflow
                 <=> FirstOrDefault(rebuilt.models)
                       = FirstOrDefault(get_models(objectInfo)))

C12_Witness ==
    /\ seed = 42
    /\ model = None
    /\ rebuilt # NoRebuild
    /\ rebuilt.models # get_models(objectInfo)
    /\ rebuilt.workflow = workflow

\* the part of s before its one "x", and the part after it
BeforeX(s) == SubSeq(s, 1, (CHOOSE i \in 1..Len(s) : s[i] = "x") - 1)
AfterX(s) == SubSeq(s, (CHOOSE i \in 1..Len(s) : s[i] = "x") + 1, Len(s))

\* p is an integer numeral: blanks, an optional sign, digits with single
\* underscores between them, blanks
Numeral(p) ==
    \E a, b \in 0..Len(p) :
        /\ a + b < Len(p)
        /\ \A i \in 1..a : p[i] = " "
        /\ \A i \in (Len(p) - b + 1)..Len(p) : p[i] = " "
        /\ LET core == SubSeq(p, a + 1, Len(p) - b)
               body == IF core[1] \in {"+", "-"} THEN Tail(core) ELSE core
           IN  /\ body # << >>
               /\ body[1] \in DigitChars
               /\ body[Len(body)] \in DigitChars
               /\ \A i \in 1..Len(body) : body[i] \in DigitChars \cup {"_"}
               /\ \A i \in 1..(Len(body) - 1) : body[i] = "_" => body[i + 1] # "_"

RECURSIVE Decimal(_)
Decimal(ds) ==
    IF ds = << >> THEN 0
    ELSE 10 * Decimal(SubSeq(ds, 1, Len(ds) - 1)) + DigitValue(ds[Len(ds)])

\* the integer a numeral denotes
NumeralValue(p) ==
    LET ds == SelectSeq(p, LAMBDA c : c \in DigitChars)
    IN  IF \E i \in 1..Len(p) : p[i] = "-" THEN 0 - Decimal(ds) ELSE Decimal(ds)

\* s is "WxH": one "x" with an integer numeral on each side
WellFormedSize(s) ==
    /\ Cardinality({i \in 1..Len(s) : s[i] = "x"}) = 1
    /\ Numeral(BeforeX(s))
    /\ Numeral(AfterX(s))

\* C13: once main has parsed --size, a string "WxH" has given exactly the
\* width W and the height H and main goes on; any other string (no "x", more
\* than one "x", a part that is not a numeral) has ended main with the
\* invalid-size message before the client was constructed: no health check,
\* no model query, no submit, no poll, no download, no file.
C13_SizeParsedOrRejected ==
    pc # "main" =>
        IF WellFormedSize(size)
        THEN /\ outcome # "InvalidSizeFormat"
             /\ width = NumeralValue(BeforeX(size))
             /\ height = NumeralValue(AfterX(size))
        ELSE /\ pc = "exited"
             /\ outcome = "InvalidSizeFormat"
             /\ healthCalls = 0
             /\ modelCalls = 0
             /\ submitCalls = 0
             /\ histCalls = 0
             /\ healthResp = None
             /\ workflow = NoWorkflow
             /\ requested = << >>
             /\ files = {}

C13_Witness ==
    /\ size = << "7", "x", "7", "x" >>
    /\ pc = "exited"
    /\ outcome = "InvalidSizeFormat"
    /\ healthCalls = 0

\* C14 as claimed: the loop goes back to get_history only while the time since
\* the start of polling, taken after the sleep, is within the ceiling: no
\* get_history call is made more than 120 seconds after the start of polling.
C14_NoPollAfterCeiling ==
    pc = "poll" => clock - start_time <= PollTimeout

\* a get_history result that is None or the empty record
NoRecord(h) == h.is_none \/ (~h.has_status /\ ~h.has_outputs)

\* the answers to GET /history/{id} that carry no record for the job: a
\* failed call, an unparsable body, a body without the job id, an empty record
NotReadyResponses ==
    {r \in HistoryResponses : r.kind # "entry" \/ NoRecord(r.record)}

\* C15: get_history turns every such answer into None or the empty record;
\* a poll that returned one of them goes to the sleep and nowhere else, the
\* sleep leads back to the poll or to the timeout, and while the loop polls
\* the invocation has not returned, has requested no image and written no
\* file; the image processing starts only on a record that is not empty.
C15_NotReadyKeepsPolling ==
    /\ [](\A r \in NotReadyResponses : NoRecord(get_history(r)))
    /\ [](pc \in {"poll", "sleep"} =>
            /\ NoRecord(history)
            /\ outcome = "Running"
            /\ result = NoPath
            /\ requested = << >>
            /\ files = {})
    /\ [][(pc = "poll" /\ NoRecord(history')) => pc' = "sleep"]_vars
    /\ [][pc = "sleep" => (pc' = "poll" \/ outcome' = "TimedOut")]_vars
    /\ [][(pc = "poll" /\ pc' # "sleep") => (pc' = "process" /\ ~NoRecord(history'))]_vars

C15_Witness ==
    /\ pc = "poll"
    /\ histCalls = HistCap
    /\ ~history.is_none
    /\ NoRecord(history)
    /\ outcome = "Running"

\* the states of the invocation in their order: before the submit (Idle),
\* polling, processing the record, returned, process ended
PhaseRank(p) ==
    CASE p \in {"main", "construct", "health", "build", "submit"} -> 1
      [] p \in {"poll", "sleep"} -> 2
      [] p = "process" -> 3
      [] p = "returned" -> 4
      [] p = "exited" -> 5

\* C16: the template lookup, the model query and the graph come after a
\* health check the server answered; the submit after the graph; every
\* get_history after a submit that gave an identifier; every download after
\* a record; the file write after a successful download.  The invocation
\* never steps back to an earlier state; once a record is there no
\* get_history follows and the timeout cannot be reached; what generate_asset
\* returned stays, with no call and no write after it.
C16_CallOrder ==
    /\ []((template # NoTemplateFile \/ modelCalls > 0 \/ workflow # NoWorkflow) =>
            (healthCalls = 1 /\ healthResp = "ok"))
    /\ [](submitCalls > 0 => (workflow # NoWorkflow /\ pc \notin {"health", "build"}))
    /\ [](histCalls > 0 => (submitCalls = 1 /\ Truthy(prompt_id)))
    /\ [](requested # << >> => (histCalls > 0 /\ ~NoRecord(history)))
    /\ [](files # {} => (requested # << >> /\ lastDownload = "ok"))
    /\ [](~NoRecord(history) => pc \in {"process", "returned", "exited"})
    /\ [][PhaseRank(pc') >= PhaseRank(pc)]_vars
    /\ [][~NoRecord(history) =>
            (history' = history /\ histCalls' = histCalls /\ outcome' # "TimedOut")]_vars
    /\ [][Returned =>
            /\ pc' = "exited"
            /\ outcome' = outcome
            /\ result' = result
            /\ << healthCalls', modelCalls', submitCalls', histCalls' >>
                  = << healthCalls, modelCalls, submitCalls, histCalls >>
            /\ requested' = requested
            /\ files' = files]_vars

C16_Witness ==
    /\ pc = "exited"
    /\ outcome = "Saved"
    /\ healthCalls = 1
    /\ modelCalls = 1
    /\ submitCalls = 1
    /\ histCalls = HistCap
    /\ Len(requested) = 2
    /\ files # {}

\* C17: on every answer on which the underlying call or the parsing raises,
\* is_server_running gives False, get_models the empty list, queue_prompt,
\* get_history and download_image None; no exception of a client operation
\* ends the process or reaches the handler of generate_asset: a process that
\* ended on an uncaught exception did so in mkdir or in the template code,
\* and the processing-error return comes from an image entry without
\* "filename" or from the file write, never from the download.
C17_ClientNeverRaises ==
    /\ \A r \in HealthResponses : RaisedOn(r) # None => ~is_server_running(r)
    /\ \A r \in ObjectInfoResponses :
          RaisedOn(r.kind) # None => get_models(r) = << >>
    /\ \A r \in SubmitResponses : RaisedOn(r) # None => queue_prompt(r) = None
    /\ \A r \in HistoryResponses :
          RaisedOn(r.kind) # None => get_history(r) = NoneHistory
    /\ \A r \in DownloadResponses : RaisedOn(r) # None => download_image(r) = None
    /\ outcome # "ClientRaised"
    /\ (pc = "exited" /\ ~Returned /\ outcome # "InvalidSizeFormat") =>
          outcome \in {"MkdirRaised", "TemplateLoadRaised", "TemplateKeyError"}
    /\ RaisedOn(lastDownload) # None => image_data = None
    /\ outcome = "ProcessingError" =>
          \/ lastDownload = "ok"
          \/ cursor <= Len(Entries) /\ ~Entries[cursor].has_filename

C17_Witness ==
    /\ pc = "exited"
    /\ objectInfo.kind = "bad_shape"
    /\ workflow.ckpt_name = "model.safetensors"
    /\ submitResp = "ok"
    /\ histCalls = HistCap
    /\ lastDownload = "timeout"
    /\ image_data = None
    /\ outcome = "NoOutputProduced"

\* violated under Spec: the starts of PersistSpec are states Spec reaches
NotPersistInit == ~PersistInit

\* the name of the image the invocation downloaded last
Served == requested[Len(requested)]

\* C18: an invocation that saved wrote one file: its name is the asset name
\* followed by the extension of the server's file name when an asset name
\* was given, and the server's file name otherwise; its path is the output
\* directory joined with that name; its content is the bytes of the
\* successful download; the value returned is that path made absolute (the
\* working directory in front of it when it is relative).
C18_LocalNameAndPath ==
    outcome = "Saved" =>
        \E f \in files :
            /\ files = {f}
            /\ lastDownload = "ok"
            /\ f.data = "PNGDATA"
            /\ f.data = image_data
            /\ IF asset_name \notin {None, ""}
               THEN /\ f.path.stem = NameAsPath(asset_name).base
                    /\ f.path.ext = Served.ext
                    /\ f.path.dirs = OutputDir \o NameAsPath(asset_name).dirs
               ELSE /\ f.path.stem = Served.stem
                    /\ f.path.ext = Served.ext
                    /\ f.path.dirs = IF Served.abs THEN Served.dirs
                                     ELSE OutputDir \o Served.dirs
            /\ result.abs
            /\ result.stem = f.path.stem
            /\ result.ext = f.path.ext
            /\ result.dirs = IF f.path.abs THEN f.path.dirs ELSE Cwd \o f.path.dirs

C18_Witness ==
    /\ outcome = "Saved"
    /\ asset_name = "hero"
    /\ Served = [abs |-> FALSE, dirs |-> << >>,
                 stem |-> "TetrisAsset_00002_", ext |-> ".webp"]
    /\ files = {[path |-> [abs |-> FALSE, dirs |-> << "assets" >>,
                           stem |-> "hero", ext |-> ".webp"],
                 data |-> "PNGDATA"]}
    /\ result = [abs |-> TRUE, dirs |-> << "home", "user", "game", "assets" >>,
                 stem |-> "hero", ext |-> ".webp"]

\* the directory a sequence of components leads to from the root, as the
\* system resolves it: ".." goes up (the root is its own parent)
RECURSIVE Resolved(_, _)
Resolved(todo, at) ==
    IF todo = << >> THEN at
    ELSE IF todo[1] = ".."
    THEN Resolved(Tail(todo), IF at = << >> THEN at ELSE SubSeq(at, 1, Len(at) - 1))
    ELSE Resolved(Tail(todo), Append(at, todo[1]))

\* the directory in which open() creates the file of a path
DirectoryOf(path) == Resolved(Absolute(path).dirs, << >>)

\* C19 as claimed: an invocation that saved wrote exactly one file, no
\* invocation writes more than one, and every file written lies directly in
\* the output directory, whatever file name the server reported (with a
\* directory, a parent-directory component, from the root) and whatever the
\* asset name is.
C19_WrittenInOutputDir ==
    /\ Cardinality(files) <= 1
    /\ outcome = "Saved" => Cardinality(files) = 1
    /\ \A f \in files : DirectoryOf(f.path) = Cwd \o OutputDir

=============================================================================
